---- MODULE Spec2Model ----
(***************************************************************************)
(* License validation with device binding (validate endpoint), the token   *)
(* verifier and the usage tracking of the token-protected endpoints.       *)
(*                                                                         *)
(* Every await on the record store is one step of a request; requests of   *)
(* different slots interleave at those steps.                              *)
(***************************************************************************)
EXTENDS Integers, Sequences, FiniteSets, TLC

\* ------------------------------------------------------------------------
\* Values
\* ------------------------------------------------------------------------

\* JavaScript null / undefined for string-valued fields.
NULL == "null"

\* An absent object (data: null, no token, no updateNotification) is the
\* empty sequence, a present one a one-element sequence.
None == <<>>
Some(x) == <<x>>

\* A missing query parameter (undefined, falsy).
Missing == ""

\* Request slots of the validate endpoint that may be in flight together.
Reqs == {"r1", "r2"}

\* License keys a client may send: the stored keys are rows of license_keys
\* (two of at most 8 characters, one longer), "NOPE-9" is no row of it.
StoredKeys == {"ABC-1", "LONGKEY-0002", "GONE-3"}
KeyInputs == StoredKeys \cup {"NOPE-9", Missing}

Devices == {"D1", "D2"}
DeviceInputs == Devices \cup {Missing}

\* A version string after split('.'): a sequence of segments. A segment is
\* a non-negative integer, NaNSeg (a non-numeric segment such as "x") or
\* EmptySeg (the empty segment of "1." or ".5"). The empty sequence is an
\* absent version (undefined or "", both falsy).
NaNSeg == -1
EmptySeg == -2
NoVersion == <<>>
VersionInputs == {NoVersion, <<2, 0>>}

\* Request headers that the tracking code reads: client ip and user agent.
\* A request's headers are drawn where the handler reads them.
HeaderInputs == {[ip |-> "ip1", ua |-> "ua1"]}

\* Clock readings (seconds) the model distinguishes.
Times == {0, 300}

\* setExpirationTime('5m')
TokenTTL == 300

\* Store operations that may fail (outage) in one behaviour of SpecOutage.
MaxFaults == 1

\* Versions handed to compareVersions: up to MaxLen segments, each one of
\* Segments; a client version may also have malformed segments.
MaxLen == 3
Segments == {0, 1, 2, 9, 10}
WellFormedVersions == UNION {[1..n -> Segments] : n \in 1..MaxLen}

\* Versions handed to the version gate: up to MaxGateLen segments.
MaxGateLen == 2
\* (The one-segment version with an empty segment is the empty string,
\* which is the absent version.)
ClientVersions ==
    ({NoVersion} \cup UNION {[1..n -> Segments \cup {NaNSeg, EmptySeg}] : n \in 1..MaxGateLen})
        \ {<<EmptySeg>>}
MinimumVersions == {NoVersion} \cup UNION {[1..n -> Segments] : n \in 1..MaxGateLen}

VARIABLES
    masterKillSwitch,   \* process.env.MASTER_KILL_SWITCH === 'true'
    JWT_SECRET,         \* process.env.JWT_SECRET
    license_keys,       \* table license_keys: rows [key, revoked]
    extension_versions, \* table extension_versions: the active rows
    device_bindings,    \* table device_bindings: sequence of rows
    api_requests,       \* table api_requests: rows logged by tracking
    now,                \* wall clock, seconds
    faultBudget,        \* store operations that may fail in this behaviour
    faults,             \* store operations that have failed so far
    req,                \* validate requests in flight: slot -> local state
    res,                \* the response the last step sent, if it sent one
    minted,             \* every token generateToken has signed so far
    track,              \* the twitter or community endpoint's request: local state
    call,               \* a call of a pure function on its own: arguments and result
    register,           \* register endpoint: its environment and the answers it gave
    share               \* config-share endpoint: table shared_configs and its last answer

vars == <<masterKillSwitch, JWT_SECRET, license_keys, extension_versions, device_bindings,
          api_requests, now, faultBudget, faults, req, res, minted, track, call,
          register, share>>

\* ------------------------------------------------------------------------
\* Version gate (pure)
\* ------------------------------------------------------------------------

\* Mutant: a missing trailing segment counts as 1.
PartOrOne(parts, i) ==
    IF i > Len(parts) THEN 1
    ELSE IF parts[i] >= 0 THEN parts[i]
    ELSE 0

\* Number(segment) || 0: a numeric segment is its value; the empty segment
\* is Number("") = 0; a non-numeric segment is NaN, which is falsy, so 0.
PartOrZero(parts, i) ==
    IF i > Len(parts) THEN 0
    ELSE IF parts[i] >= 0 THEN parts[i]
    ELSE 0

Max(a, b) == IF a >= b THEN a ELSE b

RECURSIVE compareFrom(_, _, _)
compareFrom(parts1, parts2, i) ==
    IF i > Max(Len(parts1), Len(parts2)) THEN 0
    ELSE IF PartOrZero(parts1, i) < PartOrZero(parts2, i) THEN -1
    ELSE IF PartOrZero(parts1, i) > PartOrZero(parts2, i) THEN 1
    ELSE compareFrom(parts1, parts2, i + 1)

\* Returns -1 if v1 < v2, 0 if equal, 1 if v1 > v2; 0 if either is falsy.
compareVersions(v1, v2) ==
    IF v1 = NoVersion \/ v2 = NoVersion THEN 0
    ELSE compareFrom(v1, v2, 1)

\* '1.0', the default of an absent client version or minimum_version.
DefaultVersion == <<1, 0>>

\* ------------------------------------------------------------------------
\* Credentials (pure)
\* ------------------------------------------------------------------------

Purpose == "honed-license"

\* licenseKey.substring(0, 8) + '...'
KeyFragment(licenseKey) ==
    SubSeq(licenseKey, 1, IF Len(licenseKey) < 8 THEN Len(licenseKey) ELSE 8) \o "..."

\* The claims of a token (the payload jwtVerify returns).
Claims(token) ==
    [licenseKey |-> token.licenseKey, deviceId |-> token.deviceId,
     purpose |-> token.purpose, iat |-> token.iat, exp |-> token.exp]

\* .sign(secretKey): the signature is made with the secret over the claims.
Sign(token, secret) == [token EXCEPT !.sig = [key |-> secret, over |-> Claims(token)]]

\* A compact signed token: protected header, claims and signature.
generateToken(licenseKey, deviceId, secret, t) ==
    Sign([alg        |-> "HS256",
          licenseKey |-> KeyFragment(licenseKey),
          deviceId   |-> deviceId,
          purpose    |-> Purpose,
          iat        |-> t,
          exp        |-> t + TokenTTL,
          sig        |-> [key |-> NULL, over |-> <<>>]], secret)

\* Mutant: the expiry is not checked.
verifyTokenNoExpiry(token, secret, t) ==
    IF /\ token.alg = "HS256"
       /\ token.sig = [key |-> secret, over |-> Claims(token)]
       /\ token.purpose = Purpose
    THEN Some(Claims(token))
    ELSE None

\* Mutant: the verifier also wants the token's device to have a binding.
verifyTokenChecksBinding(token, secret, t) ==
    IF /\ token.alg = "HS256"
       /\ token.sig = [key |-> secret, over |-> Claims(token)]
       /\ token.exp > t
       /\ token.purpose = Purpose
       /\ \E i \in 1..Len(device_bindings) : device_bindings[i].device_id = token.deviceId
    THEN Some(Claims(token))
    ELSE None

\* jwtVerify throws unless the token parses, its signature is the one the
\* verifier's secret makes over its claims, and exp is in the future; then
\* the purpose check. The payload, or None for null.
verifyToken(token, secret, t) ==
    IF /\ token.alg = "HS256"
       /\ token.sig = [key |-> secret, over |-> Claims(token)]
       /\ token.exp > t
       /\ token.purpose = Purpose
    THEN Some(Claims(token))
    ELSE None

\* The endpoints behind the token verifier.
ProtectedEndpoints ==
    {"supabase", "supabase/recent", "twitter", "community", "config", "sheets",
     "config-share"}

\* The error text of an endpoint's 401 for a token that does not verify.
InvalidTokenError(endpoint) ==
    IF endpoint \in {"twitter", "config"} THEN "Invalid token"
    ELSE IF endpoint = "config-share" THEN "Authentication required"
    ELSE "Unauthorized - Invalid or expired token"

\* Mutant: the 401 tells an expired token from any other invalid one.
AuthGateTellsExpired(endpoint, token, secret, t) ==
    LET payload == verifyToken(token, secret, t)
    IN  [payload  |-> payload,
         response |-> IF payload # None THEN None
                      ELSE IF token.exp <= t
                      THEN Some([status |-> 401, error |-> "Token expired"])
                      ELSE Some([status |-> 401, error |-> InvalidTokenError(endpoint)])]

\* The gate of a protected endpoint for a bearer token: the payload, or the
\* 401 the handler returns when verifyToken gave null.
AuthGate(endpoint, token, secret, t) ==
    LET payload == verifyToken(token, secret, t)
    IN  [payload  |-> payload,
         response |-> IF payload # None THEN None
                      ELSE Some([status |-> 401, error |-> InvalidTokenError(endpoint)])]

\* ------------------------------------------------------------------------
\* Record store (supabase client)
\* ------------------------------------------------------------------------

PGRST116 == "PGRST116"   \* .single() found no row, or more than one
StoreError == "STORE"    \* any other error of the store

\* .select().eq(col, val)
SelectEq(table, col, val) == SelectSeq(table, LAMBDA row : row[col] = val)

\* .single(): the row if exactly one matches, else data null and PGRST116.
Single(rows) ==
    IF Len(rows) = 1 THEN [data |-> Some(rows[1]), error |-> NULL]
    ELSE [data |-> None, error |-> PGRST116]

\* .update(fields).eq(col, val): overwrite the given fields of every match.
UpdateEq(table, col, val, fields) ==
    [i \in 1..Len(table) |->
        IF table[i][col] = val
        THEN [f \in DOMAIN table[i] |->
                 IF f \in DOMAIN fields THEN fields[f] ELSE table[i][f]]
        ELSE table[i]]

\* Mutant: the table has no uniqueness on the license key.
NoUniqueViolation(table, row) == FALSE

\* device_bindings has the license key as its identity (at most one row
\* per key): a second row for a key violates the key's uniqueness.
UniqueViolation(table, row) == SelectEq(table, "license_key", row.license_key) # <<>>

\* Mutant: the row is not written and no error is reported.
InsertDropped(table, row) == [table |-> table, error |-> NULL]

\* Mutant: .upsert(row), which overwrites the row of the same key.
Upsert(table, row) ==
    [table |-> IF SelectEq(table, "license_key", row.license_key) # <<>>
               THEN [i \in 1..Len(table) |->
                        IF table[i].license_key = row.license_key THEN row ELSE table[i]]
               ELSE Append(table, row),
     error |-> NULL]

\* .insert(row): refused with an error if the row violates uniqueness.
Insert(table, row) ==
    IF UniqueViolation(table, row)
    THEN [table |-> table, error |-> StoreError]
    ELSE [table |-> Append(table, row), error |-> NULL]

\* ------------------------------------------------------------------------
\* Initial state
\* ------------------------------------------------------------------------

\* A validate request slot with no request in it.
IdleReq ==
    [pc |-> "idle", key |-> Missing, deviceId |-> Missing,
     versionUpdateRequired |-> FALSE, versionUpdateInfo |-> None, token |-> None]

IdleTrack == [pc |-> "idle", endpoint |-> "none", deviceId |-> Missing, license_key |-> NULL]

\* No call of a pure function on its own.
NoCall == [fn |-> "none", v1 |-> NoVersion, v2 |-> NoVersion, result |-> 0,
           required |-> FALSE, key |-> Missing, deviceId |-> Missing, kind |-> "none",
           token |-> None, at |-> 0, payload |-> None, endpoint |-> "none",
           response |-> None]

\* res.status(status).json({valid, reason, ...}); a field the handler does
\* not put into the body is NULL (undefined) or None.
Response(status, valid, reason) ==
    [status |-> status, valid |-> valid, reason |-> reason, deviceId |-> NULL,
     boundDeviceId |-> NULL, newDevice |-> FALSE, token |-> None,
     updateNotification |-> None]

\* The step sent no response.
NoRes ==
    [key |-> Missing, deviceId |-> Missing, versionUpdateRequired |-> FALSE,
     step |-> "none", body |-> Response(0, FALSE, "NONE")]

\* The one version policy row the admin may have activated.
PolicyRow == [minimum_version |-> <<1, 5>>, version |-> <<2, 0>>, is_active |-> TRUE]

\* A binding made before the first step of the behaviour, of a key that
\* has been revoked since.
OldBinding ==
    [license_key |-> "LONGKEY-0002", device_id |-> "D1", bound_at |-> 0,
     last_seen |-> 0, last_ip |-> NULL, last_user_agent |-> NULL,
     last_endpoint |-> "validate"]

\* A binding of the active key made by an earlier process (which may have
\* run with the kill switch off).
EarlierBinding == [OldBinding EXCEPT !.license_key = "ABC-1"]

\* The rows of license_keys: one active key, whose expires_at is given, and
\* two revoked ones. expires_at is None (null) or a time.
LicenseRows(expires_at) ==
    {[key |-> "ABC-1", revoked |-> FALSE, expires_at |-> expires_at],
     [key |-> "LONGKEY-0002", revoked |-> TRUE, expires_at |-> None],
     [key |-> "GONE-3", revoked |-> TRUE, expires_at |-> None]}

\* An expires_at before every clock reading.
LongAgo == Some(-1)

\* Keys presented to the register endpoint.
RegisterKeys == {"ABC-1", "LONGKEY-0002"}

\* The register endpoint before any request: DEVICE_BINDINGS and REVOKED_KEYS
\* are unset, nobody was answered.
NoRegister ==
    [DEVICE_BINDINGS |-> [k \in RegisterKeys |-> NULL], REVOKED_KEYS |-> {},
     granted |-> {}, response |-> NULL]

\* What a config-share handler answered to a request with this Authorization
\* header: the status and the config rows in the body.
ShareAnswer(handler, authorization, status, configs) ==
    [handler |-> handler, authorization |-> authorization, status |-> status,
     configs |-> configs]

\* The config-share endpoint before any request: table shared_configs is
\* empty, no row was ever created.
NoShare ==
    [shared_configs |-> <<>>, created |-> 0,
     response |-> ShareAnswer("none", None, 0, <<>>)]

InitAny ==
    /\ masterKillSwitch \in BOOLEAN
    /\ JWT_SECRET = "secret"
    /\ license_keys \in {LicenseRows(None), LicenseRows(LongAgo)}
    /\ extension_versions \in {<<>>, <<PolicyRow>>}
    /\ device_bindings \in {<<OldBinding>>, <<OldBinding, EarlierBinding>>}
    /\ api_requests = {}
    /\ now = 0
    /\ faultBudget \in {0, MaxFaults}
    /\ faults = 0
    /\ req = [r \in Reqs |-> IdleReq]
    /\ res = NoRes
    /\ minted = {}
    /\ track = IdleTrack
    /\ register = NoRegister
    /\ share = NoShare

\* A store operation fails only while the fault budget lasts.
MayFail(fail) == fail => faults < faultBudget
CountFault(fail) == faults' = IF fail THEN faults + 1 ELSE faults

envVars == <<masterKillSwitch, JWT_SECRET, license_keys, extension_versions, faultBudget,
             call, register, share>>

\* ------------------------------------------------------------------------
\* validate endpoint
\* ------------------------------------------------------------------------

\* Mutant: a caught error is answered with HTTP 200.
ErrorResponseOk == Response(200, FALSE, "ERROR")

\* The catch of the handler: res.status(500).json({valid: false, reason: 'ERROR'})
ErrorResponse == Response(500, FALSE, "ERROR")

\* {valid: true, reason: 'VALID', deviceId, token[, newDevice: true]}
ValidResponse(deviceId, token, newDevice) ==
    [Response(200, TRUE, "VALID") EXCEPT
        !.deviceId = deviceId, !.token = Some(token), !.newDevice = newDevice]

\* Mutant: the notification is attached, valid and reason are left alone.
buildResponseKeepsOutcome(baseResponse, versionUpdateRequired, versionUpdateInfo) ==
    IF versionUpdateRequired /\ versionUpdateInfo # None
    THEN [baseResponse EXCEPT !.updateNotification = versionUpdateInfo]
    ELSE baseResponse

\* Overlay of the version gate: every other field of the base response
\* (the token among them) is kept by the spread.
buildResponse(baseResponse, versionUpdateRequired, versionUpdateInfo) ==
    IF versionUpdateRequired /\ versionUpdateInfo # None
    THEN [baseResponse EXCEPT
             !.valid = FALSE,
             !.reason = "UPDATE_REQUIRED",
             !.updateNotification = versionUpdateInfo]
    ELSE baseResponse

\* The active policy: .eq('is_active', true).order(created_at desc).limit(1).single()
ActivePolicy(table) ==
    LET active == SelectEq(table, "is_active", TRUE)
    IN  IF active = <<>> THEN [data |-> None, error |-> PGRST116]
        ELSE [data |-> Some(active[Len(active)]), error |-> NULL]

\* Mutant: without a policy row the gate asks for an update.
VersionCheckFailClosed(version, policy) ==
    IF policy.error = NULL /\ policy.data # None
    THEN [required |-> FALSE, info |-> None]
    ELSE [required |-> TRUE,
          info |-> Some([active |-> TRUE, currentVersion |-> version,
                         minimumVersion |-> DefaultVersion,
                         latestVersion |-> DefaultVersion])]

\* The version gate of one request: [required, info].
VersionCheck(version, policy) ==
    IF policy.error = NULL /\ policy.data # None
    THEN LET currentVersion == IF version = NoVersion THEN DefaultVersion ELSE version
             row == policy.data[1]
             minimumVersion == IF row.minimum_version = NoVersion
                               THEN DefaultVersion ELSE row.minimum_version
         IN  IF compareVersions(currentVersion, minimumVersion) < 0
             THEN [required |-> TRUE,
                   info |-> Some([active |-> TRUE,
                                  currentVersion |-> currentVersion,
                                  minimumVersion |-> minimumVersion,
                                  latestVersion |-> row.version])]
             ELSE [required |-> FALSE, info |-> None]
    ELSE [required |-> FALSE, info |-> None]

\* The handler of request rq returns from step `step` with `body`: the slot
\* is free again and the response is with the client. The response is kept
\* with what was asked and what the version gate found for the request.
Finish(r, rq, step, body) ==
    /\ req' = [req EXCEPT ![r] = IdleReq]
    /\ res' = [key |-> rq.key, deviceId |-> rq.deviceId,
               versionUpdateRequired |-> rq.versionUpdateRequired,
               step |-> step, body |-> body]

\* Slots are interchangeable: a new request takes the first free one.
FreeSlot == IF req["r1"].pc = "idle" THEN "r1"
            ELSE IF req["r2"].pc = "idle" THEN "r2" ELSE "none"

\* Mutant: the kill switch is never consulted.
killSwitchIgnored == FALSE

\* if (masterKillSwitch)
killSwitchActive == masterKillSwitch

\* Mutant: the required parameters are not checked.
missingParamsNever(key, deviceId) == FALSE

\* if (!key || !deviceId)
missingParams(key, deviceId) == key = Missing \/ deviceId = Missing

\* Mutant: a key past its expires_at counts as revoked.
isRevokedOrExpired(licenseData) ==
    \/ licenseData.revoked
    \/ \E l \in license_keys :
          l.key = licenseData.key /\ l.expires_at # None /\ l.expires_at[1] < now

\* Mutant: the revocation flag is not looked at.
isRevokedNever(licenseData) == FALSE

\* if (licenseData.revoked)
isRevoked(licenseData) == licenseData.revoked

\* A request arrives: kill switch, required parameters, version policy
\* lookup, license lookup. The two tables read here are written by no
\* request, so the two reads are one step. `fail` names the read that fails.
ValidateStart(r, key, deviceId, version, fail) ==
    /\ r = FreeSlot
    /\ LET fresh == [IdleReq EXCEPT !.key = key, !.deviceId = deviceId]
       IN  IF killSwitchActive
           THEN /\ fail = "none"
                /\ Finish(r, fresh, "start", Response(200, FALSE, "MAINTENANCE"))
                /\ UNCHANGED faults
           ELSE IF missingParams(key, deviceId)
           THEN /\ fail = "none"
                /\ Finish(r, fresh, "start", Response(400, FALSE, "INVALID_REQUEST"))
                /\ UNCHANGED faults
           ELSE /\ MayFail(fail # "none")
                /\ CountFault(fail # "none")
                /\ LET policy == IF fail = "version"
                                 THEN [data |-> None, error |-> StoreError]
                                 ELSE ActivePolicy(extension_versions)
                       gate == VersionCheck(version, policy)
                       gated == [fresh EXCEPT !.versionUpdateRequired = gate.required,
                                              !.versionUpdateInfo = gate.info]
                       rows == {l \in license_keys : l.key = key}
                   IN  IF fail = "license"
                       THEN Finish(r, gated, "license", ErrorResponse)
                       ELSE IF rows = {}
                       THEN Finish(r, gated, "license", Response(200, FALSE, "INVALID"))
                       ELSE IF \E l \in rows : isRevoked(l)
                       THEN Finish(r, gated, "license", Response(200, FALSE, "REVOKED"))
                       ELSE /\ req' = [req EXCEPT ![r] = [gated EXCEPT !.pc = "binding"]]
                            /\ res' = NoRes
    /\ UNCHANGED <<envVars, device_bindings, api_requests, now, minted, track>>

\* Mutant: any device passes for the bound one.
sameDeviceAlways(existingBinding, deviceId) == TRUE

\* if (existingBinding.device_id === deviceId)
sameDevice(existingBinding, deviceId) == existingBinding.device_id = deviceId

\* Mutant: the insert's error is dropped.
insertFailedNever(insertError) == FALSE

\* if (insertError) throw insertError
insertFailed(insertError) == insertError # NULL

\* Mutant: a refused device is recorded in the binding's telemetry.
ValidateBindingLogsMismatch(r, fail) ==
    /\ req[r].pc = "binding"
    /\ MayFail(fail)
    /\ CountFault(fail)
    /\ LET existingBinding ==
               Single(SelectEq(device_bindings, "license_key", req[r].key)).data
           token == generateToken(req[r].key, req[r].deviceId, JWT_SECRET, now)
       IN  IF fail
           THEN /\ Finish(r, req[r], "binding", ErrorResponse)
                /\ UNCHANGED <<minted, device_bindings>>
           ELSE IF existingBinding # None
           THEN IF sameDevice(existingBinding[1], req[r].deviceId)
                THEN /\ req' = [req EXCEPT ![r].pc = "touch", ![r].token = Some(token)]
                     /\ minted' = minted \cup {token}
                     /\ res' = NoRes
                     /\ UNCHANGED device_bindings
                ELSE /\ Finish(r, req[r], "binding", Response(200, FALSE, "DEVICE_MISMATCH"))
                     /\ device_bindings' =
                           UpdateEq(device_bindings, "license_key", req[r].key,
                                    [last_seen |-> now, last_endpoint |-> "mismatch"])
                     /\ UNCHANGED minted
           ELSE /\ req' = [req EXCEPT ![r].pc = "insert"]
                /\ res' = NoRes /\ UNCHANGED <<minted, device_bindings>>
    /\ UNCHANGED <<envVars, api_requests, now, track>>

\* device_bindings lookup by license key and the decision on it.
ValidateBinding(r, fail) ==
    /\ req[r].pc = "binding"
    /\ MayFail(fail)
    /\ CountFault(fail)
    /\ LET existingBinding ==
               Single(SelectEq(device_bindings, "license_key", req[r].key)).data
           token == generateToken(req[r].key, req[r].deviceId, JWT_SECRET, now)
       IN  IF fail
           THEN Finish(r, req[r], "binding", ErrorResponse) /\ UNCHANGED minted
           ELSE IF existingBinding # None
           THEN IF sameDevice(existingBinding[1], req[r].deviceId)
                THEN /\ req' = [req EXCEPT ![r].pc = "touch", ![r].token = Some(token)]
                     /\ minted' = minted \cup {token}
                     /\ res' = NoRes
                ELSE /\ Finish(r, req[r], "binding", Response(200, FALSE, "DEVICE_MISMATCH"))
                     /\ UNCHANGED minted
           ELSE /\ req' = [req EXCEPT ![r].pc = "insert"]
                /\ res' = NoRes /\ UNCHANGED minted
    /\ UNCHANGED <<envVars, device_bindings, api_requests, now, track>>

\* The ip the validate and supabase endpoints record.
ClientIp(hdr) == hdr.ip

\* Mutant: a failed tracking update fails the validation.
AfterTouchThrows(response, failed) == IF failed THEN ErrorResponse ELSE response

\* The tracking update is over: its error is not looked at, what it throws
\* is caught and logged, and the response is the one prepared.
AfterTouch(response, failed) == response

\* Bound to this device: best-effort tracking update, then the response.
ValidateTouch(r, hdr, fail) ==
    /\ req[r].pc = "touch"
    /\ MayFail(fail)
    /\ CountFault(fail)
    /\ device_bindings' =
          IF fail THEN device_bindings
          ELSE UpdateEq(device_bindings, "license_key", req[r].key,
                        [last_seen |-> now, last_ip |-> ClientIp(hdr),
                         last_user_agent |-> hdr.ua,
                         last_endpoint |-> "validate"])
    /\ Finish(r, req[r], "touch",
              AfterTouch(buildResponse(ValidResponse(req[r].deviceId, req[r].token[1], FALSE),
                                       req[r].versionUpdateRequired,
                                       req[r].versionUpdateInfo),
                         fail))
    /\ UNCHANGED <<envVars, api_requests, now, minted, track>>

\* No binding was read: insert one for this device, then token and response.
ValidateInsert(r, hdr, fail) ==
    /\ req[r].pc = "insert"
    /\ MayFail(fail)
    /\ CountFault(fail)
    /\ LET ins == IF fail THEN [table |-> device_bindings, error |-> StoreError]
                  ELSE Insert(device_bindings,
                          [license_key |-> req[r].key, device_id |-> req[r].deviceId,
                           bound_at |-> now, last_seen |-> now,
                           last_ip |-> ClientIp(hdr),
                           last_user_agent |-> hdr.ua,
                           last_endpoint |-> "validate"])
           token == generateToken(req[r].key, req[r].deviceId, JWT_SECRET, now)
       IN  /\ device_bindings' = ins.table
           /\ IF insertFailed(ins.error)
              THEN Finish(r, req[r], "insert", ErrorResponse) /\ UNCHANGED minted
              ELSE /\ minted' = minted \cup {token}
                   /\ Finish(r, req[r], "insert",
                             buildResponse(ValidResponse(req[r].deviceId, token, TRUE),
                                           req[r].versionUpdateRequired,
                                           req[r].versionUpdateInfo))
    /\ UNCHANGED <<envVars, api_requests, now, track>>

\* ------------------------------------------------------------------------
\* Token-protected endpoints: usage tracking
\* ------------------------------------------------------------------------

\* A protected endpoint answers with `body`.
Answer(endpoint, body) == [NoRes EXCEPT !.step = endpoint, !.body = body]

\* The handler is past its gate and its tracking and does its own work
\* (a query or an upstream call that is not part of this model).
Authorized == [status |-> 200, error |-> NULL]

\* Mutant: a tracking failure is passed on to the caller.
AfterTrackingThrows(endpoint, failed) ==
    IF failed THEN Answer(endpoint, [status |-> 500, error |-> "Tracking error"])
    ELSE Answer(endpoint, Authorized)

\* The tracking block is over: its errors are ignored, what it throws is
\* caught and logged, and the handler goes on.
AfterTracking(endpoint, failed) == Answer(endpoint, Authorized)

\* api/supabase.js (and supabase/recent.js): verify the bearer token, then
\* one tracking update of device_bindings by device id; its outcome is not
\* looked at, and what it throws is caught.
SupabaseHandler(token, hdr, fail) ==
    /\ MayFail(fail)
    /\ CountFault(fail)
    /\ LET gate == AuthGate("supabase", token, JWT_SECRET, now)
       IN  IF gate.payload = None
           THEN /\ ~fail
                /\ res' = Answer("supabase", gate.response[1])
                /\ UNCHANGED device_bindings
           ELSE /\ device_bindings' =
                      IF fail THEN device_bindings
                      ELSE UpdateEq(device_bindings, "device_id", gate.payload[1].deviceId,
                                    [last_seen |-> now, last_ip |-> ClientIp(hdr),
                                     last_user_agent |-> hdr.ua,
                                     last_endpoint |-> "supabase"])
                /\ res' = AfterTracking("supabase", fail)
    /\ UNCHANGED <<envVars, api_requests, now, req, minted, track>>

\* api/twitter.js: verify the bearer token, then look the binding up by
\* device id.
TwitterStart(token, fail) ==
    /\ track.pc = "idle"
    /\ MayFail(fail)
    /\ CountFault(fail)
    /\ LET gate == AuthGate("twitter", token, JWT_SECRET, now)
           payload == gate.payload
           binding == IF payload = None \/ fail THEN None
                      ELSE Single(SelectEq(device_bindings, "device_id",
                                           payload[1].deviceId)).data
       IN  /\ payload = None => ~fail
           /\ track' = IF binding = None THEN IdleTrack
                       ELSE [pc |-> "update", endpoint |-> "twitter",
                             deviceId |-> payload[1].deviceId,
                             license_key |-> binding[1].license_key]
           /\ res' = IF payload = None THEN Answer("twitter", gate.response[1])
                     ELSE IF binding = None THEN AfterTracking("twitter", fail)
                     ELSE NoRes
    /\ UNCHANGED <<envVars, device_bindings, api_requests, now, req, minted>>

\* api/twitter.js: the tracking update of device_bindings and the usage row
\* in api_requests (a table nothing reads: the two writes are one step).
\* `fail` names the write that fails; a write that throws skips the rest.
TwitterTrack(fail) ==
    /\ track.pc = "update" /\ track.endpoint = "twitter"
    /\ MayFail(fail # "none")
    /\ CountFault(fail # "none")
    /\ device_bindings' =
          IF fail \in {"update", "update_throws"} THEN device_bindings
          ELSE UpdateEq(device_bindings, "device_id", track.deviceId,
                        [last_seen |-> now, last_endpoint |-> "twitter"])
    /\ api_requests' =
          IF fail \in {"update_throws", "log"} THEN api_requests
          ELSE api_requests \cup {[license_key |-> track.license_key,
                                   device_id |-> track.deviceId,
                                   endpoint |-> "twitter"]}
    /\ track' = IdleTrack
    /\ res' = AfterTracking("twitter", fail # "none")
    /\ UNCHANGED <<envVars, now, req, minted>>

\* The community endpoint: verify the bearer token, then look the binding
\* up by device id (if (bindingError || !binding) nothing is tracked).
CommunityStart(token, fail) ==
    /\ track.pc = "idle"
    /\ MayFail(fail)
    /\ CountFault(fail)
    /\ LET gate == AuthGate("community", token, JWT_SECRET, now)
           payload == gate.payload
           binding == IF payload = None \/ fail THEN None
                      ELSE Single(SelectEq(device_bindings, "device_id",
                                           payload[1].deviceId)).data
       IN  /\ payload = None => ~fail
           /\ track' = IF binding = None THEN IdleTrack
                       ELSE [pc |-> "update", endpoint |-> "community",
                             deviceId |-> payload[1].deviceId,
                             license_key |-> binding[1].license_key]
           /\ res' = IF payload = None THEN Answer("community", gate.response[1])
                     ELSE IF binding = None THEN AfterTracking("community", fail)
                     ELSE NoRes
    /\ UNCHANGED <<envVars, device_bindings, api_requests, now, req, minted>>

\* The community endpoint: the tracking update (with ip and user agent) and
\* the usage row, as one step.
CommunityTrack(hdr, fail) ==
    /\ track.pc = "update" /\ track.endpoint = "community"
    /\ MayFail(fail # "none")
    /\ CountFault(fail # "none")
    /\ device_bindings' =
          IF fail \in {"update", "update_throws"} THEN device_bindings
          ELSE UpdateEq(device_bindings, "device_id", track.deviceId,
                        [last_seen |-> now, last_ip |-> ClientIp(hdr),
                         last_user_agent |-> hdr.ua, last_endpoint |-> "community"])
    /\ api_requests' =
          IF fail \in {"update_throws", "log"} THEN api_requests
          ELSE api_requests \cup {[license_key |-> track.license_key,
                                   device_id |-> track.deviceId,
                                   endpoint |-> "community"]}
    /\ track' = IdleTrack
    /\ res' = AfterTracking("community", fail # "none")
    /\ UNCHANGED <<envVars, now, req, minted>>

\* ------------------------------------------------------------------------
\* Clock
\* ------------------------------------------------------------------------

Tick ==
    /\ \E t \in Times : t > now /\ now' = t
    /\ res' = NoRes
    /\ UNCHANGED <<envVars, device_bindings, api_requests, faults, req, minted, track>>

Next ==
    \/ \E r \in Reqs, key \in KeyInputs, deviceId \in DeviceInputs,
          version \in VersionInputs, fail \in {"none", "version", "license"} :
          ValidateStart(r, key, deviceId, version, fail)
    \/ \E r \in Reqs, fail \in BOOLEAN : ValidateBinding(r, fail)
    \/ \E r \in Reqs, hdr \in HeaderInputs, fail \in BOOLEAN : ValidateTouch(r, hdr, fail)
    \/ \E r \in Reqs, hdr \in HeaderInputs, fail \in BOOLEAN : ValidateInsert(r, hdr, fail)
    \/ \E token \in minted, hdr \in HeaderInputs, fail \in BOOLEAN :
          SupabaseHandler(token, hdr, fail)
    \/ \E token \in minted, fail \in BOOLEAN : TwitterStart(token, fail)
    \/ \E fail \in {"none", "update", "update_throws", "log"} : TwitterTrack(fail)
    \/ Tick

\* The store answers every operation.
Init == InitAny /\ faultBudget = 0 /\ call = NoCall

Spec == Init /\ [][Next]_vars

\* The store may fail MaxFaults operations.
InitOutage ==
    /\ InitAny /\ faultBudget = MaxFaults /\ call = NoCall
    /\ license_keys = LicenseRows(None)

SpecOutage == InitOutage /\ [][Next]_vars

\* ------------------------------------------------------------------------
\* The token-protected endpoints on their own, during a store outage
\* ------------------------------------------------------------------------

NextProtected ==
    \/ \E token \in minted, hdr \in HeaderInputs, fail \in BOOLEAN :
          SupabaseHandler(token, hdr, fail)
    \/ \E token \in minted, fail \in BOOLEAN : TwitterStart(token, fail)
    \/ \E fail \in {"none", "update", "update_throws", "log"} : TwitterTrack(fail)
    \/ \E token \in minted, fail \in BOOLEAN : CommunityStart(token, fail)
    \/ \E hdr \in HeaderInputs, fail \in {"none", "update", "update_throws", "log"} :
          CommunityTrack(hdr, fail)
    \/ Tick

\* Tokens were issued at 0 for a bound and for an unbound device.
InitProtected ==
    /\ masterKillSwitch = FALSE
    /\ JWT_SECRET = "secret"
    /\ license_keys = {[key |-> k, revoked |-> (k # "ABC-1")] : k \in StoredKeys}
    /\ extension_versions = <<>>
    /\ device_bindings \in {<<OldBinding>>, <<EarlierBinding>>}
    /\ api_requests = {}
    /\ now = 0
    /\ faultBudget = MaxFaults
    /\ faults = 0
    /\ req = [r \in Reqs |-> IdleReq]
    /\ res = NoRes
    /\ minted = {generateToken("ABC-1", d, JWT_SECRET, 0) : d \in Devices}
    /\ track = IdleTrack
    /\ call = NoCall
    /\ register = NoRegister
    /\ share = NoShare

SpecProtected == InitProtected /\ [][NextProtected]_vars

\* ------------------------------------------------------------------------
\* The version functions on their own
\* ------------------------------------------------------------------------

storeVars == <<masterKillSwitch, JWT_SECRET, license_keys, extension_versions,
               device_bindings, api_requests, now, faultBudget, faults, req, res,
               minted, track, register, share>>

\* compareVersions(v1, v2) is called.
CompareCall ==
    /\ call.fn = "compare_args"
    /\ call' = [call EXCEPT !.fn = "compareVersions",
                              !.result = compareVersions(call.v1, call.v2)]
    /\ UNCHANGED storeVars

\* The version gate is evaluated for client version v1 against the active
\* policy row whose minimum_version is v2.
GateCall ==
    /\ call.fn = "gate_args"
    /\ LET policy == ActivePolicy(<<[PolicyRow EXCEPT !.minimum_version = call.v2]>>)
       IN  call' = [call EXCEPT !.fn = "VersionCheck",
                                 !.required = VersionCheck(call.v1, policy).required]
    /\ UNCHANGED storeVars

NextVersions == CompareCall \/ GateCall

InitVersions ==
    /\ InitAny /\ faultBudget = 0 /\ ~masterKillSwitch
    /\ extension_versions = <<>> /\ device_bindings = <<OldBinding>>
    /\ \/ \E v1 \in WellFormedVersions, v2 \in WellFormedVersions :
             call = [NoCall EXCEPT !.fn = "compare_args", !.v1 = v1, !.v2 = v2]
       \/ \E v1 \in ClientVersions, v2 \in MinimumVersions :
             call = [NoCall EXCEPT !.fn = "gate_args", !.v1 = v1, !.v2 = v2]

SpecVersions == InitVersions /\ [][NextVersions]_vars

\* ------------------------------------------------------------------------
\* The credential functions on their own
\* ------------------------------------------------------------------------

\* Clock readings around the expiry of tokens issued at 0 and at 1.
CredentialTimes == {0, 1, 299, 300, 301, 302, 600}

\* Keys of at most and of more than 8 characters.
IssueKeys == {"ABC-1", "LONGKEY-0002"}

\* What somebody without the signing secret can do to a token they hold
\* (another signature, another device id or a later expiry under the old
\* signature, a header that does not parse), and a token of another purpose
\* signed with the secret.
TamperKinds == {"signature", "claims", "extended", "malformed", "purpose"}

Tamper(kind, token, secret) ==
    IF kind = "signature" THEN [token EXCEPT !.sig.key = "forged"]
    ELSE IF kind = "claims"
    THEN [token EXCEPT !.deviceId = IF token.deviceId = "D1" THEN "D2" ELSE "D1"]
    ELSE IF kind = "extended" THEN [token EXCEPT !.exp = token.exp + TokenTTL]
    ELSE IF kind = "malformed" THEN [token EXCEPT !.alg = "garbage"]
    ELSE Sign([token EXCEPT !.purpose = "other-purpose"], secret)

credentialFrame ==
    <<masterKillSwitch, JWT_SECRET, license_keys, extension_versions, device_bindings,
      api_requests, faultBudget, faults, req, res, minted, track, register, share>>

\* generateToken(key, deviceId) is called.
IssueCall(key, deviceId) ==
    /\ call.token = None
    /\ call' = [NoCall EXCEPT !.fn = "generateToken", !.key = key, !.deviceId = deviceId,
                              !.kind = "genuine", !.at = now,
                              !.token = Some(generateToken(key, deviceId, JWT_SECRET, now))]
    /\ UNCHANGED <<credentialFrame, now>>

\* The holder of the token alters it.
TamperCall(kind) ==
    /\ call.token # None /\ call.kind = "genuine"
    /\ call' = [call EXCEPT !.fn = "tamper", !.kind = kind,
                            !.token = Some(Tamper(kind, call.token[1], JWT_SECRET)),
                            !.payload = None, !.endpoint = "none", !.response = None]
    /\ UNCHANGED <<credentialFrame, now>>

\* verifyToken(token) is called.
VerifyCall ==
    /\ call.token # None
    /\ call' = [call EXCEPT !.fn = "verifyToken", !.at = now,
                            !.payload = verifyToken(call.token[1], JWT_SECRET, now),
                            !.endpoint = "none", !.response = None]
    /\ UNCHANGED <<credentialFrame, now>>

\* The token is presented to a protected endpoint as its bearer token.
EndpointCall(endpoint) ==
    /\ call.token # None
    /\ LET gate == AuthGate(endpoint, call.token[1], JWT_SECRET, now)
       IN  call' = [call EXCEPT !.fn = "handler", !.at = now, !.endpoint = endpoint,
                               !.payload = gate.payload, !.response = gate.response]
    /\ UNCHANGED <<credentialFrame, now>>

CredentialTick ==
    /\ \E t \in CredentialTimes : t > now /\ now' = t
    /\ UNCHANGED <<credentialFrame, call>>

NextCredential ==
    \/ \E key \in IssueKeys, deviceId \in Devices : IssueCall(key, deviceId)
    \/ \E kind \in TamperKinds : TamperCall(kind)
    \/ VerifyCall
    \/ \E endpoint \in ProtectedEndpoints : EndpointCall(endpoint)
    \/ CredentialTick

\* The store is in any of several states: the verifier is to decide the
\* same in all of them.
InitCredential ==
    /\ masterKillSwitch = FALSE
    /\ JWT_SECRET = "secret"
    /\ license_keys \in {{[key |-> k, revoked |-> (k # "ABC-1")] : k \in StoredKeys},
                          {[key |-> k, revoked |-> TRUE] : k \in StoredKeys}}
    /\ extension_versions = <<>>
    /\ device_bindings \in {<<>>, <<OldBinding, EarlierBinding>>}
    /\ api_requests = {}
    /\ now = 0
    /\ faultBudget = 0
    /\ faults = 0
    /\ req = [r \in Reqs |-> IdleReq]
    /\ res = NoRes
    /\ minted = {}
    /\ track = IdleTrack
    /\ call = NoCall
    /\ register = NoRegister
    /\ share = NoShare

SpecCredential == InitCredential /\ [][NextCredential]_vars

\* ------------------------------------------------------------------------
\* The signing secret of the issuer and of each verifier
\* ------------------------------------------------------------------------

\* process.env.JWT_SECRET is not set.
Unset == "undefined"

\* The fallback written in the source of some verifiers.
DefaultSecret == "your-secret-key-change-this"

\* new TextEncoder().encode(undefined) and .encode(''): no bytes.
EmptyKey == ""

\* The modules with `process.env.JWT_SECRET || 'your-secret-key-change-this'`.
FallbackEndpoints == {"supabase/recent", "twitter", "community", "sheets"}

\* The secretKey of a module: of "validate", the issuer, or of an endpoint.
secretKey(module) ==
    IF JWT_SECRET # Unset THEN JWT_SECRET
    ELSE IF module \in FallbackEndpoints THEN DefaultSecret
    ELSE EmptyKey

\* validate calls generateToken(key, deviceId). Whether a key of no bytes
\* signs or makes the library throw depends on the runtime: either happens.
SecretsIssue(key, deviceId, zeroLengthKeyOk) ==
    /\ call.token = None
    /\ call' = IF secretKey("validate") = EmptyKey /\ ~zeroLengthKeyOk
               THEN [NoCall EXCEPT !.fn = "generateToken throws", !.at = now]
               ELSE [NoCall EXCEPT
                       !.fn = "generateToken", !.key = key, !.deviceId = deviceId,
                       !.kind = "genuine", !.at = now,
                       !.token = Some(generateToken(key, deviceId,
                                                    secretKey("validate"), now))]
    /\ UNCHANGED <<credentialFrame, now>>

\* Secrets somebody outside can sign with: the one published in the source,
\* no bytes, and a guess.
ForgerSecrets == {DefaultSecret, EmptyKey, "guess"}

\* Somebody who never validated a license signs the claims themselves.
SecretsForge(deviceId, secret) ==
    /\ call.token = None
    /\ call' = [NoCall EXCEPT
                  !.fn = "forge", !.key = "NOPE-9", !.deviceId = deviceId,
                  !.kind = "forged", !.at = now,
                  !.token = Some(generateToken("NOPE-9", deviceId, secret, now))]
    /\ UNCHANGED <<credentialFrame, now>>

\* The token is presented to an endpoint, which calls its own verifyToken
\* with its own secretKey. With a key of no bytes jwtVerify verifies or
\* throws (and the catch returns null), depending on the runtime.
SecretsPresent(endpoint, zeroLengthKeyOk) ==
    /\ call.token # None
    /\ call' = [call EXCEPT
                  !.fn = "handler", !.at = now, !.endpoint = endpoint,
                  !.payload = IF secretKey(endpoint) = EmptyKey /\ ~zeroLengthKeyOk
                              THEN None
                              ELSE verifyToken(call.token[1], secretKey(endpoint), now)]
    /\ UNCHANGED <<credentialFrame, now>>

NextSecrets ==
    \/ \E key \in IssueKeys, deviceId \in Devices, ok \in BOOLEAN :
          SecretsIssue(key, deviceId, ok)
    \/ \E deviceId \in Devices, secret \in ForgerSecrets : SecretsForge(deviceId, secret)
    \/ \E endpoint \in ProtectedEndpoints, ok \in BOOLEAN : SecretsPresent(endpoint, ok)
    \/ CredentialTick

\* JWT_SECRET is set in the deployment or it is not.
InitSecrets ==
    /\ masterKillSwitch = FALSE
    /\ JWT_SECRET \in {"secret", Unset}
    /\ license_keys = LicenseRows(None)
    /\ extension_versions = <<>>
    /\ device_bindings = <<>>
    /\ api_requests = {}
    /\ now = 0
    /\ faultBudget = 0
    /\ faults = 0
    /\ req = [r \in Reqs |-> IdleReq]
    /\ res = NoRes
    /\ minted = {}
    /\ track = IdleTrack
    /\ call = NoCall
    /\ register = NoRegister
    /\ share = NoShare

SpecSecrets == InitSecrets /\ [][NextSecrets]_vars

\* ------------------------------------------------------------------------
\* register endpoint
\* ------------------------------------------------------------------------

\* A body without a success field (the 400 answers) has success FALSE here.
RegisterAnswer(status, success, reason, alreadyBound, boundDeviceId) ==
    [status |-> status, success |-> success, registered |-> success, reason |-> reason,
     alreadyBound |-> alreadyBound, boundDeviceId |-> boundDeviceId]

\* The handler of GET /api/register: what it answers to (key, deviceId) when
\* the environment holds bindings, revokedKeys and the kill switch.
registerHandler(key, deviceId, bindings, revokedKeys, killSwitch) ==
    IF key = Missing \/ deviceId = Missing
    THEN RegisterAnswer(400, FALSE, "Missing", NULL, NULL)
    ELSE IF key \in revokedKeys
    THEN RegisterAnswer(200, FALSE, "REVOKED", NULL, NULL)
    ELSE IF killSwitch
    THEN RegisterAnswer(200, FALSE, "MAINTENANCE", NULL, NULL)
    ELSE LET boundDeviceId == bindings[key]
         IN  IF boundDeviceId = NULL
             THEN RegisterAnswer(200, TRUE, NULL, "false", NULL)
             ELSE IF boundDeviceId = deviceId
             THEN RegisterAnswer(200, TRUE, NULL, "true", NULL)
             ELSE RegisterAnswer(200, FALSE, "DEVICE_MISMATCH", "true", boundDeviceId)

\* A register request is handled. The handler reads the environment and
\* writes nothing; granted records who was told success.
Register(key, deviceId) ==
    /\ LET answer == registerHandler(key, deviceId, register.DEVICE_BINDINGS,
                                     register.REVOKED_KEYS, masterKillSwitch)
       IN  register' =
             [register EXCEPT
                !.response = [key |-> key, deviceId |-> deviceId, body |-> answer],
                !.granted = IF answer.success
                            THEN register.granted \cup {<<key, deviceId>>}
                            ELSE register.granted]
    /\ UNCHANGED <<masterKillSwitch, JWT_SECRET, license_keys, extension_versions,
                   device_bindings, api_requests, now, faultBudget, faults, req, res,
                   minted, track, call, share>>

NextRegister ==
    \E key \in RegisterKeys \cup {Missing}, deviceId \in DeviceInputs : Register(key, deviceId)

\* The deployment's environment is any of: kill switch on or off, each key
\* bound to a device or to none, any keys revoked.
InitRegister ==
    /\ masterKillSwitch \in BOOLEAN
    /\ JWT_SECRET = "secret"
    /\ license_keys = LicenseRows(None)
    /\ extension_versions = <<>>
    /\ device_bindings = <<>>
    /\ api_requests = {}
    /\ now = 0
    /\ faultBudget = 0
    /\ faults = 0
    /\ req = [r \in Reqs |-> IdleReq]
    /\ res = NoRes
    /\ minted = {}
    /\ track = IdleTrack
    /\ call = NoCall
    /\ \E bindings \in [RegisterKeys -> Devices \cup {NULL}], revokedKeys \in SUBSET RegisterKeys :
          register = [NoRegister EXCEPT !.DEVICE_BINDINGS = bindings,
                                        !.REVOKED_KEYS = revokedKeys]
    /\ share = NoShare

SpecRegister == InitRegister /\ [][NextRegister]_vars

\* ------------------------------------------------------------------------
\* config-share endpoint
\* ------------------------------------------------------------------------

MaxConfigs == 2    \* configs uploaded in a behaviour
MaxCount == 1      \* previews and copies counted per config

\* The id of a request that names no config.
MissingId == 0
ConfigIdInputs == (1..MaxConfigs) \cup {MissingId}

\* Authorization headers: none, the bearer token of each device, and a
\* token whose signature is not the issuer's.
ShareHeaders ==
    {None}
      \cup {Some(generateToken("ABC-1", d, "secret", 0)) : d \in Devices}
      \cup {Some(Tamper("signature", generateToken("ABC-1", "D1", "secret", 0), "secret"))}

\* getAuthPayload(req): null without a bearer token or when it does not verify.
getAuthPayload(authorization) ==
    IF authorization = None THEN None
    ELSE verifyToken(authorization[1], JWT_SECRET, now)

\* .order('created_at', { ascending: false })
NewestFirst(rows) == [i \in 1..Len(rows) |-> rows[Len(rows) + 1 - i]]

shareFrame ==
    <<masterKillSwitch, JWT_SECRET, license_keys, extension_versions, device_bindings,
      api_requests, now, faultBudget, faults, req, res, minted, track, call, register>>

\* The rows a browse request selects: all of them with own=true, else the
\* public ones.
BrowseQuery(table, own) == IF own THEN table ELSE SelectEq(table, "is_public", TRUE)

\* GET /api/config-share?own=...
handleBrowse(authorization, own) ==
    /\ share' = [share EXCEPT
                   !.response = ShareAnswer("browse", authorization, 200,
                                   NewestFirst(BrowseQuery(share.shared_configs, own)))]
    /\ UNCHANGED shareFrame

\* GET /api/config-share?action=preview&id=...
handlePreview(authorization, configId) ==
    /\ LET found == Single(SelectEq(share.shared_configs, "id", configId))
       IN  IF configId = MissingId
           THEN share' = [share EXCEPT
                            !.response = ShareAnswer("preview", authorization, 400, <<>>)]
           ELSE IF found.error # NULL \/ found.data = None
           THEN share' = [share EXCEPT
                            !.response = ShareAnswer("preview", authorization, 404, <<>>)]
           ELSE IF ~found.data[1].is_public
           THEN share' = [share EXCEPT
                            !.response = ShareAnswer("preview", authorization, 403, <<>>)]
           ELSE /\ found.data[1].view_count < MaxCount
                /\ share' = [share EXCEPT
                               !.shared_configs =
                                   UpdateEq(share.shared_configs, "id", configId,
                                            [view_count |-> found.data[1].view_count + 1]),
                               !.response = ShareAnswer("preview", authorization, 200,
                                                        <<found.data[1]>>)]
    /\ UNCHANGED shareFrame

\* POST /api/config-share?action=upload
handleUpload(authorization, isPublic, configData) ==
    /\ share.created < MaxConfigs
    /\ LET authPayload == getAuthPayload(authorization)
       IN  IF authPayload = None
           THEN share' = [share EXCEPT
                            !.response = ShareAnswer("upload", authorization, 401, <<>>)]
           ELSE IF configData = Missing
           THEN share' = [share EXCEPT
                            !.response = ShareAnswer("upload", authorization, 400, <<>>)]
           ELSE share' = [share EXCEPT
                            !.shared_configs =
                                Append(share.shared_configs,
                                       [id |-> share.created + 1,
                                        device_id |-> authPayload[1].deviceId,
                                        is_public |-> isPublic,
                                        config_data |-> configData,
                                        view_count |-> 0, copy_count |-> 0]),
                            !.created = share.created + 1,
                            !.response = ShareAnswer("upload", authorization, 200, <<>>)]
    /\ UNCHANGED shareFrame

\* POST /api/config-share?action=copy&id=...
handleCopy(authorization, configId) ==
    /\ LET found == Single(SelectEq(share.shared_configs, "id", configId))
       IN  IF configId = MissingId
           THEN share' = [share EXCEPT
                            !.response = ShareAnswer("copy", authorization, 400, <<>>)]
           ELSE IF found.error # NULL \/ found.data = None
           THEN share' = [share EXCEPT
                            !.response = ShareAnswer("copy", authorization, 404, <<>>)]
           ELSE IF ~found.data[1].is_public
           THEN share' = [share EXCEPT
                            !.response = ShareAnswer("copy", authorization, 403, <<>>)]
           ELSE /\ found.data[1].copy_count < MaxCount
                /\ share' = [share EXCEPT
                               !.shared_configs =
                                   UpdateEq(share.shared_configs, "id", configId,
                                            [copy_count |-> found.data[1].copy_count + 1]),
                               !.response = ShareAnswer("copy", authorization, 200,
                                                        <<found.data[1]>>)]
    /\ UNCHANGED shareFrame

\* Mutant: the caller's device is not compared with the config's.
ownsConfigAlways(existingConfig, authPayload) == TRUE

\* existingConfig.device_id === authPayload.deviceId
ownsConfig(existingConfig, authPayload) ==
    existingConfig.device_id = authPayload[1].deviceId

\* PATCH /api/config-share?action=visibility with body {configId, isPublic}
handleVisibility(authorization, configId, isPublic) ==
    /\ LET authPayload == getAuthPayload(authorization)
           found == Single(SelectEq(share.shared_configs, "id", configId))
       IN  IF authPayload = None
           THEN share' = [share EXCEPT
                            !.response = ShareAnswer("visibility", authorization, 401, <<>>)]
           ELSE IF configId = MissingId
           THEN share' = [share EXCEPT
                            !.response = ShareAnswer("visibility", authorization, 400, <<>>)]
           ELSE IF found.error # NULL \/ found.data = None
           THEN share' = [share EXCEPT
                            !.response = ShareAnswer("visibility", authorization, 404, <<>>)]
           ELSE IF ~ownsConfig(found.data[1], authPayload)
           THEN share' = [share EXCEPT
                            !.response = ShareAnswer("visibility", authorization, 403, <<>>)]
           ELSE share' = [share EXCEPT
                            !.shared_configs =
                                UpdateEq(share.shared_configs, "id", configId,
                                         [is_public |-> isPublic]),
                            !.response = ShareAnswer("visibility", authorization, 200, <<>>)]
    /\ UNCHANGED shareFrame

\* DELETE /api/config-share?id=...
handleDelete(authorization, configId) ==
    /\ LET authPayload == getAuthPayload(authorization)
           found == Single(SelectEq(share.shared_configs, "id", configId))
       IN  IF authPayload = None
           THEN share' = [share EXCEPT
                            !.response = ShareAnswer("delete", authorization, 401, <<>>)]
           ELSE IF configId = MissingId
           THEN share' = [share EXCEPT
                            !.response = ShareAnswer("delete", authorization, 400, <<>>)]
           ELSE IF found.error # NULL \/ found.data = None
           THEN share' = [share EXCEPT
                            !.response = ShareAnswer("delete", authorization, 404, <<>>)]
           ELSE IF ~ownsConfig(found.data[1], authPayload)
           THEN share' = [share EXCEPT
                            !.response = ShareAnswer("delete", authorization, 403, <<>>)]
           ELSE share' = [share EXCEPT
                            !.shared_configs =
                                SelectSeq(share.shared_configs,
                                          LAMBDA row : row.id # configId),
                            !.response = ShareAnswer("delete", authorization, 200, <<>>)]
    /\ UNCHANGED shareFrame

NextShare ==
    \/ \E authorization \in ShareHeaders, own \in BOOLEAN : handleBrowse(authorization, own)
    \/ \E authorization \in ShareHeaders, configId \in ConfigIdInputs :
          handlePreview(authorization, configId)
    \/ \E authorization \in ShareHeaders, isPublic \in BOOLEAN,
          configData \in {Missing, "settings"} :
          handleUpload(authorization, isPublic, configData)
    \/ \E authorization \in ShareHeaders, configId \in ConfigIdInputs :
          handleCopy(authorization, configId)
    \/ \E authorization \in ShareHeaders, configId \in ConfigIdInputs, isPublic \in BOOLEAN :
          handleVisibility(authorization, configId, isPublic)
    \/ \E authorization \in ShareHeaders, configId \in ConfigIdInputs :
          handleDelete(authorization, configId)

InitShare ==
    /\ masterKillSwitch = FALSE
    /\ JWT_SECRET = "secret"
    /\ license_keys = LicenseRows(None)
    /\ extension_versions = <<>>
    /\ device_bindings = <<>>
    /\ api_requests = {}
    /\ now = 0
    /\ faultBudget = 0
    /\ faults = 0
    /\ req = [r \in Reqs |-> IdleReq]
    /\ res = NoRes
    /\ minted = {}
    /\ track = IdleTrack
    /\ call = NoCall
    /\ register = NoRegister
    /\ share = NoShare

SpecShare == InitShare /\ [][NextShare]_vars

\* ------------------------------------------------------------------------
\* Properties
\* ------------------------------------------------------------------------

\* The step just taken sent a validate response.
Sent == res.step \in {"start", "license", "binding", "touch", "insert"}

\* The binding rows of a license key.
BindingsOf(key) == SelectEq(device_bindings, "license_key", key)

\* The key has exactly one binding row and it names this device.
BoundTo(key, deviceId) ==
    Len(BindingsOf(key)) = 1 /\ BindingsOf(key)[1].device_id = deviceId

\* The key has exactly one binding row and it names another device.
BoundElsewhere(key, deviceId) ==
    Len(BindingsOf(key)) = 1 /\ BindingsOf(key)[1].device_id # deviceId

\* C1: first-activation race. With a store that answers, under every
\* interleaving of the binding reads and inserts of concurrent requests:
\* tokens are only ever minted for one device per key (so at most one of
\* two devices gets VALID with a token); a response with a token goes to
\* the device the key is bound to; and when a request returns from its
\* insert, the key has exactly one binding row (its own, unless its insert
\* was refused).
C1_OneWinner ==
    /\ \A t1, t2 \in minted : t1.licenseKey = t2.licenseKey => t1.deviceId = t2.deviceId
    /\ (Sent /\ res.body.token # None) => BoundTo(res.key, res.deviceId)
    /\ (Sent /\ res.step = "insert") =>
          /\ Len(BindingsOf(res.key)) = 1
          /\ BindingsOf(res.key)[1].device_id \in Devices
          /\ BoundTo(res.key, res.deviceId) \/ res.body.token = None

\* A request lost the race to the other device, which holds a token.
C1_Witness ==
    /\ Sent /\ res.step = "insert" /\ res.body.token = None
    /\ BoundElsewhere(res.key, res.deviceId)
    /\ \E t \in minted : t.deviceId = BindingsOf(res.key)[1].device_id

\* C2: a request that read no binding and then finds the key bound to
\* another device at its insert answers DEVICE_MISMATCH (HTTP 200), not an
\* error.
C2_LoserSeesMismatch ==
    (Sent /\ res.step = "insert" /\ BoundElsewhere(res.key, res.deviceId)) =>
        (res.body.reason = "DEVICE_MISMATCH" /\ res.body.status = 200)

\* C3: a binding row is never removed and its license_key, device_id and
\* bound_at never change, whatever validate and tracking steps follow; only
\* last_seen, last_ip, last_user_agent and last_endpoint are written.
C3_DeviceIdImmutable ==
    [][\A i \in 1..Len(device_bindings) :
          /\ i <= Len(device_bindings')
          /\ device_bindings'[i].license_key = device_bindings[i].license_key
          /\ device_bindings'[i].device_id = device_bindings[i].device_id
          /\ device_bindings'[i].bound_at = device_bindings[i].bound_at]_vars

\* A row was written by a protected endpoint's tracking and another by a
\* later validate of its bound device.
C3_Witness ==
    /\ \E i \in 1..Len(device_bindings) : device_bindings[i].last_endpoint = "supabase"
    /\ \E i \in 1..Len(device_bindings) :
          /\ device_bindings[i].last_endpoint = "validate"
          /\ device_bindings[i].last_seen > device_bindings[i].bound_at

C5_FirstWinsThenMismatch ==
    [][\A r \in Reqs :
          /\ (/\ req[r].pc = "insert" /\ req'[r].pc = "idle"
              /\ BindingsOf(req[r].key) = <<>>
              /\ ~req[r].versionUpdateRequired)
             => /\ res'.body.reason = "VALID" /\ res'.body.valid
                /\ res'.body.token # None
                /\ Len(SelectEq(device_bindings', "license_key", req[r].key)) = 1
                /\ SelectEq(device_bindings', "license_key", req[r].key)[1].device_id
                      = req[r].deviceId
          /\ (/\ req[r].pc = "binding" /\ req'[r].pc # "binding"
              /\ BoundElsewhere(req[r].key, req[r].deviceId))
             => /\ res'.body = Response(200, FALSE, "DEVICE_MISMATCH")
                /\ device_bindings' = device_bindings]_vars

\* A device is refused a key that another device bound in this behaviour.
C5_Witness ==
    /\ Sent /\ res.body.reason = "DEVICE_MISMATCH"
    /\ BoundElsewhere(res.key, res.deviceId)
    /\ BindingsOf(res.key)[1].bound_at = 300

\* C6: validate requests of the device the key is bound to never add a
\* second row, and each of them (with a version the gate accepts) reports
\* VALID.
C6_SameDeviceIdempotent ==
    /\ \A key \in StoredKeys : Len(BindingsOf(key)) <= 1
    /\ (/\ Sent /\ res.step \in {"touch", "insert"}
        /\ ~res.versionUpdateRequired
        /\ BoundTo(res.key, res.deviceId))
       => res.body.reason = "VALID"

\* C7: a validate response whose reason is not VALID carries no token.
C7_TokenOnlyWhenValid ==
    (Sent /\ res.body.reason # "VALID") => res.body.token = None

\* C8: with the kill switch on, every response is the plain MAINTENANCE
\* response, no request gets past its first step, no store operation is
\* attempted (none can fail, none writes) and no token is minted.
C8_KillSwitch ==
    masterKillSwitch =>
        /\ Sent => res.body = Response(200, FALSE, "MAINTENANCE")
        /\ \A r \in Reqs : req[r] = IdleReq
        /\ faults = 0
        /\ device_bindings \in {<<OldBinding>>, <<OldBinding, EarlierBinding>>}
        /\ api_requests = {}
        /\ minted = {}

\* MAINTENANCE for a key bound to the requesting device.
C8_Witness ==
    /\ masterKillSwitch /\ Sent /\ res.body.reason = "MAINTENANCE"
    /\ res.key = "ABC-1" /\ BoundTo(res.key, res.deviceId)

\* C9: with the kill switch off and both parameters present, a request for
\* a key whose license row has revoked = true answers REVOKED, whatever the
\* key's binding and whatever the version gate found.
C9_Revoked ==
    (/\ Sent /\ ~masterKillSwitch
     /\ res.key # Missing /\ res.deviceId # Missing
     /\ \E l \in license_keys : l.key = res.key /\ l.revoked)
    => res.body = Response(200, FALSE, "REVOKED")

\* REVOKED for the device the revoked key is bound to, version too old.
C9_Witness ==
    /\ Sent /\ res.body.reason = "REVOKED" /\ res.versionUpdateRequired
    /\ BoundTo(res.key, res.deviceId)

\* C10: when the version gate failed for a request, a response that would
\* be VALID is UPDATE_REQUIRED with valid = false and the notification
\* attached; UPDATE_REQUIRED is sent for no other request; and MAINTENANCE,
\* INVALID_REQUEST, INVALID, REVOKED and DEVICE_MISMATCH responses are the
\* plain responses, with no field of the overlay.
C10_VersionOverlay ==
    /\ (/\ Sent /\ res.versionUpdateRequired
        /\ res.step \in {"touch", "insert"} /\ res.body.reason # "ERROR")
       => /\ res.body.reason = "UPDATE_REQUIRED" /\ ~res.body.valid
          /\ res.body.status = 200
          /\ res.body.updateNotification # None
          /\ res.body.deviceId = res.deviceId
    /\ (Sent /\ res.body.reason = "UPDATE_REQUIRED") => res.versionUpdateRequired
    /\ (Sent /\ res.body.reason \in {"MAINTENANCE", "INVALID_REQUEST", "INVALID",
                                     "REVOKED", "DEVICE_MISMATCH"})
       => res.body = Response(res.body.status, FALSE, res.body.reason)

\* A first activation answered UPDATE_REQUIRED.
C10_Witness ==
    Sent /\ res.body.reason = "UPDATE_REQUIRED" /\ res.body.newDevice

\* C11: the validate outcome is the first match in the order MAINTENANCE,
\* INVALID_REQUEST, INVALID, REVOKED, binding resolution (store answering):
\* kill switch on gives MAINTENANCE even with a parameter missing; else a
\* missing key or device id gives INVALID_REQUEST; else a key that is no row
\* of license_keys gives INVALID whatever the device id and the version
\* gate's finding; else a revoked key gives REVOKED; and only an active key
\* gets an outcome of the binding resolution.
C11_EvaluationOrder ==
    Sent =>
        LET rows == {l \in license_keys : l.key = res.key}
        IN  IF masterKillSwitch THEN res.body.reason = "MAINTENANCE"
            ELSE IF res.key = Missing \/ res.deviceId = Missing
            THEN res.body.reason = "INVALID_REQUEST" /\ res.body.status = 400
            ELSE IF rows = {} THEN res.body.reason = "INVALID"
            ELSE IF \E l \in rows : l.revoked THEN res.body.reason = "REVOKED"
            ELSE /\ res.body.reason \in {"VALID", "UPDATE_REQUIRED",
                                         "DEVICE_MISMATCH", "ERROR"}
                 /\ res.step \in {"binding", "touch", "insert"}

\* Kill switch off, the device id missing and the key revoked and bound:
\* INVALID_REQUEST comes before REVOKED.
C11_Witness ==
    /\ Sent /\ ~masterKillSwitch /\ res.body.reason = "INVALID_REQUEST"
    /\ res.deviceId = Missing /\ res.key = "LONGKEY-0002"

\* C12: a DEVICE_MISMATCH response carries the caller's device id and, as
\* boundDeviceId, the device id the key is bound to.
C12_MismatchDiscloses ==
    (Sent /\ res.body.reason = "DEVICE_MISMATCH") =>
        /\ res.body.deviceId = res.deviceId
        /\ BindingsOf(res.key) # <<>>
        /\ res.body.boundDeviceId = BindingsOf(res.key)[1].device_id

\* C15: a validate step in which a store operation fails (the version
\* policy lookup, the license lookup, the binding lookup or the binding
\* insert; not the best-effort tracking update) answers HTTP 500 with
\* {valid: false, reason: ERROR}.
C15_StoreFailureIsError ==
    [][(/\ faults' > faults
        /\ \/ \E r \in Reqs : req'[r] # req[r] /\ req[r].pc # "touch"
           \/ res'.step \in {"start", "license", "binding", "insert"})
       => res'.body = ErrorResponse]_vars

\* A version with a segment that is not a non-negative integer.
Malformed(v) == \E i \in 1..Len(v) : v[i] < 0

\* C13: a client version that is absent or malformed is gated exactly as
\* "1.0" is, for every minimum version of the active policy.
C13_MalformedIsDefault ==
    (call.fn = "VersionCheck" /\ (call.v1 = NoVersion \/ Malformed(call.v1))) =>
        call.required =
            VersionCheck(DefaultVersion,
                         ActivePolicy(<<[PolicyRow EXCEPT !.minimum_version = call.v2]>>)
                        ).required

\* The tuple of a version padded with zeros to n segments.
Padded(v, n) == [i \in 1..n |-> IF i <= Len(v) THEN v[i] ELSE 0]

\* The lexicographic order of two integer tuples padded to equal length.
LexOrder(a, b) ==
    LET n == Max(Len(a), Len(b))
        diff == {i \in 1..n : Padded(a, n)[i] # Padded(b, n)[i]}
    IN  IF diff = {} THEN 0
        ELSE LET k == CHOOSE i \in diff : \A j \in diff : i <= j
             IN  IF Padded(a, n)[k] < Padded(b, n)[k] THEN -1 ELSE 1

\* C14: for two well-formed versions compareVersions returns -1, 0 or 1 as
\* the lexicographic order of their zero-padded integer tuples; so
\* "1.9" < "1.10" < "2.0" and "1.2" equals "1.2.0".
C14_LexicographicPadded ==
    /\ call.fn = "compareVersions" =>
          /\ call.result \in {-1, 0, 1}
          /\ call.result = LexOrder(call.v1, call.v2)
    /\ compareVersions(<<1, 9>>, <<1, 10>>) = -1
    /\ compareVersions(<<1, 10>>, <<2, 0>>) = -1
    /\ compareVersions(<<1, 2>>, <<1, 2, 0>>) = 0

\* "1.2" was compared with "1.2.0" and found equal.
C14_Witness ==
    /\ call.fn = "compareVersions" /\ call.v1 = <<1, 2>> /\ call.v2 = <<1, 2, 0>>
    /\ call.result = 0

\* C16: the licenseKey claim of an issued token never lets the full license
\* key be read: no stored key is the claim or the beginning of it.
C16_FragmentHidesKey ==
    \A t \in minted : \A k \in StoredKeys :
        ~(Len(k) <= Len(t.licenseKey) /\ SubSeq(t.licenseKey, 1, Len(k)) = k)

\* C17: a token issued for (key, deviceId) at time t has exp = t + 5 min;
\* verified up to t + 299 s it gives a payload with the deviceId it was
\* issued for, from t + 301 s on verification fails; and a token whose exp
\* was moved later does not verify (nothing extends a credential).
C17_IssueVerifyRoundTrip ==
    call.fn = "verifyToken" =>
        LET token == call.token[1]
        IN  /\ call.kind = "genuine" =>
                  /\ token.exp = token.iat + 300
                  /\ call.at <= token.iat + 299 =>
                         (call.payload # None /\ call.payload[1].deviceId = call.deviceId)
                  /\ call.at >= token.iat + 301 => call.payload = None
            /\ call.kind = "extended" => call.payload = None

\* A token issued at 1 was verified at 300 (issue + 299 s) and accepted.
C17_Witness ==
    /\ call.fn = "verifyToken" /\ call.kind = "genuine"
    /\ call.token[1].iat = 1 /\ call.at = 300 /\ call.payload # None

\* The token does not verify: it was tampered with, or it has expired.
InvalidPresented == call.kind # "genuine" \/ call.token[1].exp <= call.at

\* C18: verifyToken gives null for a token with a bad signature, an expired
\* one, one of another purpose and a malformed one; and each protected
\* endpoint answers all of them as it answers a malformed token, with a 401
\* whose text does not depend on the cause.
C18_UniformInvalid ==
    /\ (call.fn = "verifyToken" /\ InvalidPresented) => call.payload = None
    /\ (call.fn = "handler" /\ InvalidPresented) =>
          /\ call.payload = None
          /\ call.response # None
          /\ call.response[1].status = 401
          /\ call.response =
                AuthGate(call.endpoint, Tamper("malformed", call.token[1], JWT_SECRET),
                         JWT_SECRET, 0).response

\* An expired, untampered token was refused by the config endpoint.
C18_Witness ==
    /\ call.fn = "handler" /\ call.endpoint = "config" /\ call.kind = "genuine"
    /\ call.token[1].exp <= call.at /\ call.response # None

\* C19: whether a token verifies is decided by the token, the signing
\* secret and the time of the check alone, whatever the store holds: a
\* genuine token verifies exactly until its expiry, also when its device
\* has no binding and every key is revoked; a tampered one never does.
C19_VerifierStateless ==
    call.fn \in {"verifyToken", "handler"} =>
        ((call.payload # None) <=>
            (call.kind = "genuine" /\ call.token[1].exp > call.at))

\* A genuine token was accepted by an endpoint while the store has no
\* binding at all and its key is revoked.
C19_Witness ==
    /\ call.fn = "handler" /\ call.payload # None
    /\ device_bindings = <<>>
    /\ \A l \in license_keys : l.revoked

\* C20: in the supabase, twitter and community endpoints a tracking read or
\* write that fails or throws is swallowed: the step in which it fails ends
\* the tracking with the handler past authorization, as when it succeeds;
\* and while every issued token is unexpired no request is answered 401.
C20_OutageKeepsAuthorized ==
    [][/\ faults' > faults =>
             (res'.step \in ProtectedEndpoints /\ res'.body = Authorized)
       /\ (/\ res'.step \in ProtectedEndpoints
           /\ \A token \in minted : verifyToken(token, JWT_SECRET, now) # None)
          => res'.body = Authorized]_vars

\* The community endpoint went on although its usage row could not be
\* written after the tracking update.
C20_Witness ==
    /\ res.step = "community" /\ res.body = Authorized /\ faults > 0
    /\ \E i \in 1..Len(device_bindings) : device_bindings[i].last_endpoint = "community"
    /\ api_requests = {}

\* C21: when the request comes from the bound device, the response after
\* the telemetry update is the VALID response with the token (UPDATE_REQUIRED
\* if the version gate failed), the same whether the update succeeded or
\* failed, and never ERROR.
C21_TelemetryFailureHarmless ==
    [][\A r \in Reqs :
          (req[r].pc = "touch" /\ req'[r].pc = "idle") =>
             /\ res'.step = "touch"
             /\ res'.body =
                   buildResponse(ValidResponse(req[r].deviceId, req[r].token[1], FALSE),
                                 req[r].versionUpdateRequired, req[r].versionUpdateInfo)
             /\ res'.body.reason \in {"VALID", "UPDATE_REQUIRED"}
             /\ res'.body.status = 200]_vars

\* VALID at time 300 for the bound device while the binding still has the
\* last_seen of time 0: the update of this request failed.
C21_Witness ==
    /\ Sent /\ res.step = "touch" /\ res.body.reason = "VALID" /\ now = 300
    /\ faults > 0
    /\ BoundTo(res.key, res.deviceId) /\ BindingsOf(res.key)[1].last_seen = 0

\* C22: without an active version policy no request is marked as needing
\* an update and no response is UPDATE_REQUIRED, whatever the client
\* version; and a request whose policy lookup failed goes on unmarked, to
\* the outcome it has with a policy its version satisfies.
C22_GateFailsOpen ==
    [][/\ extension_versions = <<>> =>
             /\ \A r \in Reqs : ~req'[r].versionUpdateRequired
             /\ res'.step \in {"start", "license", "binding", "touch", "insert"} =>
                    (~res'.versionUpdateRequired /\ res'.body.reason # "UPDATE_REQUIRED")
       /\ \A r \in Reqs :
             (req[r].pc = "idle" /\ req'[r].pc = "binding" /\ faults' > faults)
                => ~req'[r].versionUpdateRequired
       /\ (res'.step = "license" /\ faults' > faults /\ res'.body.reason # "ERROR")
             => ~res'.versionUpdateRequired]_vars

\* A first activation answered VALID while no version policy is active.
C22_Witness ==
    /\ extension_versions = <<>> /\ faultBudget > 0
    /\ Sent /\ res.step = "insert" /\ res.body.reason = "VALID" /\ res.body.newDevice

\* C23: with the kill switch off, a request with the key or the device id
\* missing is answered 400 INVALID_REQUEST in its first step, in which no
\* store operation is attempted: none can fail and no table is written.
C23_MissingParamsNoStore ==
    [][(/\ res'.step \in {"start", "license", "binding", "touch", "insert"}
        /\ ~masterKillSwitch
        /\ (res'.key = Missing \/ res'.deviceId = Missing))
       => /\ res'.step = "start"
          /\ res'.body = Response(400, FALSE, "INVALID_REQUEST")
          /\ faults' = faults
          /\ device_bindings' = device_bindings
          /\ api_requests' = api_requests
          /\ req' = req]_vars

\* INVALID_REQUEST for a request without key while the store is failing.
C23_Witness ==
    /\ Sent /\ res.body.reason = "INVALID_REQUEST" /\ res.body.status = 400
    /\ res.key = Missing /\ res.deviceId = "D1" /\ faultBudget > 0

\* C24: a request that ends in MAINTENANCE, INVALID_REQUEST, INVALID,
\* REVOKED or DEVICE_MISMATCH ends in its first step or at the binding
\* lookup, and neither of these steps adds a binding row or changes a field
\* of an existing one.
C24_RejectionsWriteNothing ==
    [][/\ res'.step \in {"start", "license", "binding"} =>
             device_bindings' = device_bindings
       /\ \A r \in Reqs :
             (req[r].pc \in {"idle", "binding"} /\ req'[r] # req[r]) =>
                device_bindings' = device_bindings
       /\ (/\ res'.step \in {"start", "license", "binding", "touch", "insert"}
           /\ res'.body.reason \in {"MAINTENANCE", "INVALID_REQUEST", "INVALID",
                                     "REVOKED", "DEVICE_MISMATCH"})
          => res'.step \in {"start", "license", "binding"}]_vars

\* DEVICE_MISMATCH at time 300 and the binding still has the last_seen of
\* time 0.
C24_Witness ==
    /\ Sent /\ res.body.reason = "DEVICE_MISMATCH" /\ now = 300
    /\ BoundElsewhere(res.key, res.deviceId)
    /\ BindingsOf(res.key)[1].last_seen = 0

\* C26: MAINTENANCE, INVALID, REVOKED, DEVICE_MISMATCH and UPDATE_REQUIRED
\* are answered with HTTP 200, valid = false and that reason; 400 is the
\* status of INVALID_REQUEST and of nothing else, 500 the status of ERROR
\* and of nothing else; ERROR is sent only after a store operation failed
\* or an insert was refused; valid = true goes with VALID only.
C26_StatusOfOutcomes ==
    Sent =>
        /\ res.body.reason \in {"MAINTENANCE", "INVALID", "REVOKED", "DEVICE_MISMATCH",
                                 "UPDATE_REQUIRED"}
              => (res.body.status = 200 /\ ~res.body.valid)
        /\ res.body.status = 400 <=> res.body.reason = "INVALID_REQUEST"
        /\ res.body.status = 500 <=> res.body.reason = "ERROR"
        /\ res.body.reason = "ERROR" => (faults > 0 \/ res.step = "insert")
        /\ res.body.valid <=> res.body.reason = "VALID"
        /\ res.body.status \in {200, 400, 500}

\* ERROR with HTTP 500 after the binding lookup failed.
C26_Witness ==
    /\ Sent /\ res.step = "binding" /\ res.body.reason = "ERROR"
    /\ res.body.status = 500 /\ faults = 1

\* The key is not revoked and its expires_at is in the past.
ExpiredActive(key) ==
    \E l \in license_keys :
        l.key = key /\ ~l.revoked /\ l.expires_at # None /\ l.expires_at[1] < now

\* C25: a non-revoked key whose expires_at is in the past is validated as
\* one without expires_at: its request is not ended by the license check;
\* the bound device gets its token and VALID; an unbound key is bound to
\* the requester with VALID and a token (version accepted by the gate).
C25_ExpiryDoesNotReject ==
    [][/\ \A r \in Reqs :
             ExpiredActive(req[r].key) =>
                /\ (/\ req[r].pc = "binding" /\ req'[r] # req[r]
                    /\ BoundTo(req[r].key, req[r].deviceId))
                   => (req'[r].pc = "touch" /\ req'[r].token # None)
                /\ (/\ req[r].pc = "touch" /\ req'[r].pc = "idle"
                    /\ ~req[r].versionUpdateRequired)
                   => (res'.body.reason = "VALID" /\ res'.body.token # None)
                /\ (/\ req[r].pc = "insert" /\ req'[r].pc = "idle"
                    /\ BindingsOf(req[r].key) = <<>>
                    /\ ~req[r].versionUpdateRequired)
                   => /\ res'.body.reason = "VALID" /\ res'.body.token # None
                      /\ res'.body.newDevice
       /\ (/\ res'.step \in {"start", "license", "binding", "touch", "insert"}
           /\ ExpiredActive(res'.key)
           /\ ~masterKillSwitch /\ res'.deviceId # Missing)
          => res'.step \in {"binding", "touch", "insert"}]_vars

\* A first activation of a key past its expires_at answered VALID.
C25_Witness ==
    /\ Sent /\ ExpiredActive(res.key) /\ res.body.reason = "VALID"
    /\ res.body.newDevice /\ res.body.token # None


\* C27: over any sequence of register requests for one non-revoked key from
\* the devices D1 and D2, with the kill switch off, at most one of the two
\* devices is ever answered success=true / registered=true.
C27_OneDevicePerKey ==
    \A key \in RegisterKeys :
        (~masterKillSwitch /\ key \notin register.REVOKED_KEYS)
            => Cardinality({d \in Devices : <<key, d>> \in register.granted}) <= 1


\* C28: a validate request for an active key with no binding, from a client
\* the version gate refused, still commits the binding: its insert adds the
\* one row of the key, naming the requesting device, and the response is
\* UPDATE_REQUIRED; the row stays as committed from then on; and every
\* request of another device that looks the key up afterwards answers
\* DEVICE_MISMATCH, whatever the version gate found for it.
C28_GatedRequestBinds ==
    [][/\ \A r \in Reqs :
             /\ (/\ req[r].pc = "insert" /\ req'[r].pc = "idle"
                 /\ BindingsOf(req[r].key) = <<>>
                 /\ req[r].versionUpdateRequired)
                => /\ res'.body.reason = "UPDATE_REQUIRED" /\ ~res'.body.valid
                   /\ device_bindings' =
                         Append(device_bindings, device_bindings'[Len(device_bindings')])
                   /\ device_bindings'[Len(device_bindings')].license_key = req[r].key
                   /\ device_bindings'[Len(device_bindings')].device_id = req[r].deviceId
             /\ (/\ req[r].pc = "binding" /\ req'[r].pc # "binding"
                 /\ BoundElsewhere(req[r].key, req[r].deviceId))
                => /\ res'.step = "binding"
                   /\ res'.body.reason = "DEVICE_MISMATCH"
       /\ (Sent /\ res.step = "insert" /\ res.body.reason = "UPDATE_REQUIRED")
             => BoundTo(res.key, res.deviceId)
       /\ \A key \in StoredKeys, deviceId \in Devices :
             BoundTo(key, deviceId) =>
                /\ Len(SelectEq(device_bindings', "license_key", key)) = 1
                /\ SelectEq(device_bindings', "license_key", key)[1].device_id = deviceId]_vars

\* A refused client's first request was answered UPDATE_REQUIRED at time
\* 300 and the key is bound to its device since then.
C28_Witness ==
    /\ Sent /\ res.step = "insert" /\ res.versionUpdateRequired
    /\ res.body.reason = "UPDATE_REQUIRED"
    /\ BoundTo(res.key, res.deviceId)
    /\ BindingsOf(res.key)[1].bound_at = 300


\* C29: issuer and verifiers agree on the signing secret whether JWT_SECRET
\* is set or not: a token presented to a protected endpoint before its
\* expiry is accepted by the endpoint's verifyToken if and only if the
\* validate endpoint's generateToken minted it.
C29_SecretsAgree ==
    (call.fn = "handler" /\ call.token # None /\ call.at < call.token[1].exp)
        => (call.payload # None <=> call.kind = "genuine")


\* The device of the credential an Authorization header carries, if it
\* carries one that verifies.
CredentialDevice(authorization) ==
    IF getAuthPayload(authorization) = None THEN None
    ELSE Some(getAuthPayload(authorization)[1].deviceId)

\* C30: whatever upload, browse, preview, copy, visibility and delete
\* requests came before, a response carries the config data of a private
\* config (is_public = false) only to a caller whose credential names the
\* uploader's device.
C30_PrivateDataOwnerOnly ==
    \A i \in 1..Len(share.response.configs) :
        ~share.response.configs[i].is_public
            => CredentialDevice(share.response.authorization)
                  = Some(share.response.configs[i].device_id)

\* Only a caller whose credential names the config's device changes its
\* visibility or deletes it.
C30_OwnerOnlyWrites ==
    [][\A i \in 1..Len(share.shared_configs) :
          LET row == share.shared_configs[i]
              after == SelectEq(share'.shared_configs, "id", row.id)
          IN  (after = <<>> \/ after[1].is_public # row.is_public)
                 => /\ share'.response.handler \in {"visibility", "delete"}
                    /\ CredentialDevice(share'.response.authorization)
                          = Some(row.device_id)]_vars

\* An owner made a config private or deleted it.
C30_OwnerWrote ==
    /\ share.response.handler \in {"visibility", "delete"}
    /\ share.response.status = 200
    /\ share.created = 2
    /\ \A i \in 1..Len(share.shared_configs) : ~share.shared_configs[i].is_public

====
